---- MODULE Spec2Model ----
(***************************************************************************)
(* PhishShield: the URL scanner component (src/components/UrlScanner.tsx)  *)
(* and the preview component it renders (src/components/UrlPreview.tsx).   *)
(*                                                                         *)
(* Strings are TLA+ strings.  The characters of the inputs are printable   *)
(* ASCII; the three non-Latin letters used by the inputs are written with  *)
(* the stand-in characters CyrillicO, GreekAlpha and MathBoldA, which      *)
(* occur in no other role.                                                 *)
(***************************************************************************)
EXTENDS Integers, Sequences, FiniteSets, TLC

VARIABLES
    url,           \* useState('')      : text of the input field
    isScanning,    \* useState(false)
    result,        \* useState(null)    : NoResult or a ScanResult record
    toast,         \* last toast shown  : NoToast or [title, variant]
    pending,       \* analyzeUrl calls waiting on the 2000 ms timer, oldest first
    pc,            \* position of the analyzeUrl call that is executing
    urlToAnalyze,  \* its argument
    threats,       \* its local threats[]
    warnings,      \* its local warnings[]
    riskLevel,     \* its local riskLevel
    score,         \* its local score
    seen,          \* history: the outcome of one earlier completed scan, or NoResult
    mounted,       \* UrlPreview: an instance of the component is rendered
    previewUrl,    \* UrlPreview: useState(null)
    isLoading,     \* UrlPreview: useState(false)
    error,         \* UrlPreview: useState(null)
    currentService,\* UrlPreview: useState(0)
    debounce,      \* UrlPreview: url of the armed 1000 ms timer, or null
    lookups        \* UrlPreview: the generatePreview chains of the instance

\* the state of the preview component
pvars == <<mounted, previewUrl, isLoading, error, currentService, debounce, lookups>>

vars == <<url, isScanning, result, toast, pending, pc, urlToAnalyze,
          threats, warnings, riskLevel, score, seen, pvars>>

-----------------------------------------------------------------------------
(* String primitives of the JavaScript runtime.                            *)

Char(s, i) == SubSeq(s, i, i)

UpperLetters == "ABCDEFGHIJKLMNOPQRSTUVWXYZ"
LowerLetters == "abcdefghijklmnopqrstuvwxyz"
DigitChars == {"0", "1", "2", "3", "4", "5", "6", "7", "8", "9"}
LowerChars == {Char(LowerLetters, i) : i \in 1..26}
HexChars == DigitChars \cup {"a", "b", "c", "d", "e", "f"}

\* Stand-ins for U+043E (Cyrillic o), U+03B1 (Greek alpha), U+1D41A (bold a).
CyrillicO == "~"
GreekAlpha == "!"
MathBoldA == "$"
NonAscii == {CyrillicO, GreekAlpha, MathBoldA}

LowerOf(c) ==
    IF \E i \in 1..26 : Char(UpperLetters, i) = c
    THEN Char(LowerLetters, CHOOSE i \in 1..26 : Char(UpperLetters, i) = c)
    ELSE c

RECURSIVE MapChars(_, _)
\* the string of f[c] for the characters c of s (by halves)
MapChars(f, s) ==
    IF s = "" THEN ""
    ELSE IF Len(s) = 1 THEN f[s]
    ELSE MapChars(f, SubSeq(s, 1, Len(s) \div 2)) \o
         MapChars(f, SubSeq(s, Len(s) \div 2 + 1, Len(s)))

CharsOf(s) == {Char(s, i) : i \in 1..Len(s)}

toLowerCase(s) == MapChars([c \in CharsOf(s) |-> LowerOf(c)], s)

startsWith(s, p) == Len(s) >= Len(p) /\ SubSeq(s, 1, Len(p)) = p

endsWith(s, p) == Len(s) >= Len(p) /\ SubSeq(s, Len(s) - Len(p) + 1, Len(s)) = p

\* s has p at position i
At(s, i, p) == i >= 1 /\ i + Len(p) - 1 <= Len(s) /\ SubSeq(s, i, i + Len(p) - 1) = p

includes(s, p) == \E i \in 1..(Len(s) - Len(p) + 1) : At(s, i, p)

\* String.prototype.trim, over the one whitespace character of the inputs
RECURSIVE trimStart(_)
trimStart(s) == IF s # "" /\ Char(s, 1) = " " THEN trimStart(SubSeq(s, 2, Len(s))) ELSE s

RECURSIVE trimEnd(_)
trimEnd(s) ==
    IF s # "" /\ Char(s, Len(s)) = " " THEN trimEnd(SubSeq(s, 1, Len(s) - 1)) ELSE s

trim(s) == trimEnd(trimStart(s))

\* every character of s is in set cs
AllIn(s, cs) == \A i \in 1..Len(s) : Char(s, i) \in cs

\* index of the first character of s in cs, or Len(s)+1
FirstOf(s, cs) ==
    IF \E i \in 1..Len(s) : Char(s, i) \in cs
    THEN CHOOSE i \in 1..Len(s) :
            Char(s, i) \in cs /\ \A j \in 1..(i - 1) : Char(s, j) \notin cs
    ELSE Len(s) + 1

\* index of the last occurrence of character c in s, or 0
LastIndexOf(s, c) ==
    IF \E i \in 1..Len(s) : Char(s, i) = c
    THEN CHOOSE i \in 1..Len(s) :
            Char(s, i) = c /\ \A j \in (i + 1)..Len(s) : Char(s, j) # c
    ELSE 0

-----------------------------------------------------------------------------
(* new URL(urlToAnalyze): the WHATWG URL parser for the http and https     *)
(* schemes, over the alphabet of the inputs (letters, digits, space and    *)
(* . - / : ? = & @ and the non-Latin stand-ins; no %, \, #, [ or tab, no   *)
(* dot or dot-dot path segment, no hexadecimal IPv4 part, ports and IPv4    *)
(* parts of at most 5 and 9 digits).  trim strips the space character.     *)

ParseFailure == [ok |-> FALSE, hostname |-> "", pathname |-> ""]

ForbiddenHostChars == {" ", "/", ":", "?", "@", "<", ">", "^", "|"}

\* IDNA ToASCII of the labels of the inputs that hold a non-Latin letter
\* (Punycode, RFC 3492; the bold letter is first mapped to its Latin letter);
\* the label of any other such host is marked, not encoded.
ToAsciiLabel(label) ==
    CASE label = "g" \o CyrillicO \o "ogle" -> "xn--gogle-jye"
      [] label = GreekAlpha \o "pple" -> "xn--pple-zld"
      [] label = MathBoldA \o "pple" -> "apple"
      [] OTHER -> "xn--" \o label

RECURSIVE domainToASCII(_)
domainToASCII(h) ==
    LET dot == FirstOf(h, {"."})
        label == SubSeq(h, 1, dot - 1)
        enc == IF \E i \in 1..Len(label) : Char(label, i) \in NonAscii
               THEN ToAsciiLabel(label)
               ELSE toLowerCase(label)
    IN  IF dot > Len(h) THEN enc
        ELSE enc \o "." \o domainToASCII(SubSeq(h, dot + 1, Len(h)))

DigitValue(c) == CHOOSE n \in 0..9 : Char("0123456789", n + 1) = c

RECURSIVE ParseNumber(_, _, _)
\* value of the digit string s in the given base, on top of acc; -1 on failure
ParseNumber(s, base, acc) ==
    IF s = "" THEN acc
    ELSE IF Char(s, 1) \notin DigitChars \/ DigitValue(Char(s, 1)) >= base THEN -1
    ELSE ParseNumber(SubSeq(s, 2, Len(s)), base, acc * base + DigitValue(Char(s, 1)))

\* one part of an IPv4 literal: decimal, or octal after a leading 0
IPv4Part(s) ==
    IF s = "" THEN -1
    ELSE IF Len(s) >= 2 /\ Char(s, 1) = "0" THEN ParseNumber(SubSeq(s, 2, Len(s)), 8, 0)
    ELSE ParseNumber(s, 10, 0)

RECURSIVE SplitDots(_)
SplitDots(h) ==
    LET dot == FirstOf(h, {"."})
    IN  IF dot > Len(h) THEN <<h>>
        ELSE <<SubSeq(h, 1, dot - 1)>> \o SplitDots(SubSeq(h, dot + 1, Len(h)))

RECURSIVE DecimalString(_)
DecimalString(n) ==
    IF n < 10 THEN Char("0123456789", n + 1)
    ELSE DecimalString(n \div 10) \o Char("0123456789", (n % 10) + 1)

Pow256(k) == CASE k = 0 -> 1 [] k = 1 -> 256 [] k = 2 -> 65536 [] OTHER -> 16777216

\* the labels of h, without the empty label a trailing dot leaves
HostParts(h) ==
    LET parts == SplitDots(h)
    IN  IF Len(parts) > 1 /\ parts[Len(parts)] = ""
        THEN SubSeq(parts, 1, Len(parts) - 1) ELSE parts

\* the host string ends in a number: its last label is all digits
EndsInNumber(h) ==
    LET ps == HostParts(h)
    IN  ps[Len(ps)] # "" /\ AllIn(ps[Len(ps)], DigitChars)

\* IPv4 parser and serializer: the dotted quad, or "" on failure.  The last
\* part fills the bytes the parts before it leave (parts of up to 9 digits).
IPv4Host(h) ==
    LET ps == HostParts(h)
        n == Len(ps)
        nums == [i \in 1..n |-> IF Len(ps[i]) > 9 THEN -1 ELSE IPv4Part(ps[i])]
        k == 5 - n
        byte(j) == IF j < n THEN nums[j]
                   ELSE (nums[n] \div Pow256(4 - j)) % 256
    IN  IF n > 4 \/ \E i \in 1..n : nums[i] < 0 THEN ""
        ELSE IF \E i \in 1..(n - 1) : nums[i] > 255 THEN ""
        ELSE IF k < 4 /\ nums[n] >= Pow256(k) THEN ""
        ELSE DecimalString(byte(1)) \o "." \o DecimalString(byte(2)) \o "." \o
             DecimalString(byte(3)) \o "." \o DecimalString(byte(4))

\* host parser: the serialized host, or "" on failure
ParseHost(h) ==
    IF h = "" \/ \E i \in 1..Len(h) : Char(h, i) \in ForbiddenHostChars THEN ""
    ELSE LET ascii == domainToASCII(h)
         IN  IF EndsInNumber(ascii) THEN IPv4Host(ascii) ELSE ascii

\* the path percent-encode set, over the input alphabet: space only
EncodeSpaces(s) == MapChars([c \in CharsOf(s) |-> IF c = " " THEN "%20" ELSE c], s)

RECURSIVE SkipSlashes(_)
SkipSlashes(s) ==
    IF s # "" /\ Char(s, 1) = "/" THEN SkipSlashes(SubSeq(s, 2, Len(s))) ELSE s

ParseURL(u) ==
    IF ~(startsWith(u, "http://") \/ startsWith(u, "https://")) THEN ParseFailure
    ELSE
    LET afterScheme == SubSeq(u, FirstOf(u, {":"}) + 1, Len(u))
        rest == SkipSlashes(afterScheme)
        authEnd == FirstOf(rest, {"/", "?"})
        authority == SubSeq(rest, 1, authEnd - 1)
        tail == SubSeq(rest, authEnd, Len(rest))
        at == LastIndexOf(authority, "@")
        hostport == SubSeq(authority, at + 1, Len(authority))
        colon == FirstOf(hostport, {":"})
        hostStr == SubSeq(hostport, 1, colon - 1)
        port == SubSeq(hostport, colon + 1, Len(hostport))
        portOk == AllIn(port, DigitChars) /\ Len(port) <= 5 /\
                  ParseNumber(port, 10, 0) <= 65535
        host == ParseHost(hostStr)
        pathEnd == FirstOf(tail, {"?"})
        path == SubSeq(tail, 1, pathEnd - 1)
    IN  IF host = "" \/ ~portOk THEN ParseFailure
        ELSE [ok |-> TRUE, hostname |-> host,
              pathname |-> IF path = "" THEN "/" ELSE EncodeSpaces(path)]

-----------------------------------------------------------------------------
(* analyzeUrl: the accumulator of one call and the rule battery.  Messages *)
(* are the source's texts without their leading pictograph, and with ' for *)
(* the double quotes inside them.                                          *)

\* lines 40-43
SeedAcc == [threats |-> <<>>, warnings |-> <<>>, riskLevel |-> "safe", score |-> 100]

\* fault: a firing that forgets warnings.push
FireThreatOnly(a, t, w, lvl, pen) ==
    [threats |-> Append(a.threats, t), warnings |-> a.warnings,
     riskLevel |-> lvl, score |-> a.score - pen]

\* threats.push(t); warnings.push(w); riskLevel = lvl; score -= pen
Fire(a, t, w, lvl, pen) ==
    [threats |-> Append(a.threats, t), warnings |-> Append(a.warnings, w),
     riskLevel |-> lvl, score |-> a.score - pen]

\* fault: the unconditional assignment riskLevel = 'suspicious'
EscalateAssigns(lvl) == "suspicious"

\* riskLevel === 'safe' ? 'suspicious' : riskLevel
Escalate(lvl) == IF lvl = "safe" THEN "suspicious" ELSE lvl

\* s matches lit [a-z]{min,} and, with dot, a full stop after the letters
MatchLitLetters(s, lit, min, dot) ==
    \E i \in 1..Len(s) :
        /\ At(s, i, lit)
        /\ \E k \in min..(Len(s) - i - Len(lit) + 1) :
              /\ AllIn(SubSeq(s, i + Len(lit), i + Len(lit) + k - 1), LowerChars)
              /\ dot => At(s, i + Len(lit) + k, ".")

\* s matches a .* b
MatchGap(s, a, b) ==
    \E i \in 1..Len(s) : At(s, i, a) /\ \E j \in (i + Len(a))..Len(s) : At(s, j, b)

\* 1. misspellings (lines 50-70)
MisspellingPenalty == 70

commonMisspellings == <<
    [correct |-> "google", misspelled |-> <<"gooogle", "googel", "gogle", "googl">>],
    [correct |-> "facebook", misspelled |-> <<"faceb00k", "facebok", "facebook">>],
    [correct |-> "paypal", misspelled |-> <<"payp4l", "paypaI", "paypaII", "paipal">>],
    [correct |-> "amazon", misspelled |-> <<"amaz0n", "amazon", "amazone", "amazom">>],
    [correct |-> "microsoft", misspelled |-> <<"microsooft", "microsft", "microsofy">>],
    [correct |-> "apple", misspelled |-> <<"appIe", "appl3", "aple">>],
    [correct |-> "netflix", misspelled |-> <<"netfIix", "netfl1x", "netflixx">> ] >>

\* fault: the message names the misspelled form as the brand
MisspellingThreatSwapped(misspelled, correct) ==
    "Possible misspelling detected: '" \o correct \o "' (looks like " \o misspelled \o ")"

MisspellingThreat(misspelled, correct) ==
    "Possible misspelling detected: '" \o misspelled \o "' (looks like " \o correct \o ")"

MisspellingWarning(correct) ==
    "This URL contains what appears to be a misspelled version of " \o correct \o
    ". Please double-check before proceeding."

RECURSIVE MisspellingLoop(_, _, _, _)
\* from entry j of check i on, in the order of the nested for loops
MisspellingLoop(a, domain, i, j) ==
    IF i > Len(commonMisspellings) THEN a
    ELSE LET check == commonMisspellings[i]
         IN  IF j > Len(check.misspelled) THEN MisspellingLoop(a, domain, i + 1, 1)
             ELSE IF includes(domain, check.misspelled[j])
             THEN MisspellingLoop(
                      Fire(a, MisspellingThreat(check.misspelled[j], check.correct),
                           MisspellingWarning(check.correct), "dangerous",
                           MisspellingPenalty),
                      domain, i, j + 1)
             ELSE MisspellingLoop(a, domain, i, j + 1)

\* fault: the scan of the dictionary stops at its first match
MisspellingRuleFirstMatch(a, domain) ==
    LET b == MisspellingLoop(a, domain, 1, 1)
    IN  IF Len(b.threats) = Len(a.threats) THEN a
        ELSE Fire(a, b.threats[Len(a.threats) + 1], b.warnings[Len(a.warnings) + 1],
                  "dangerous", MisspellingPenalty)

MisspellingRule(a, domain) == MisspellingLoop(a, domain, 1, 1)

\* 2. homograph characters (lines 72-86): the members of the three character
\* classes among the characters of the inputs
HomographPenalty == 80

homographPatterns == << {CyrillicO}, {GreekAlpha}, {MathBoldA} >>

HomographThreat ==
    "Homograph attack detected: Non-Latin characters that may mimic legitimate sites"

HomographWarning ==
    "This URL uses characters that look similar to regular letters but aren't. This is a common trick used by scammers."

RECURSIVE HomographLoop(_, _, _)
HomographLoop(a, domain, i) ==
    IF i > Len(homographPatterns) THEN a
    ELSE IF \E k \in 1..Len(domain) : Char(domain, k) \in homographPatterns[i]
    THEN HomographLoop(Fire(a, HomographThreat, HomographWarning, "dangerous",
                            HomographPenalty), domain, i + 1)
    ELSE HomographLoop(a, domain, i + 1)

HomographRule(a, domain) == HomographLoop(a, domain, 1)

\* 3. missing HTTPS (lines 88-94)
HttpsPenalty == 30

HttpsThreat == "No HTTPS encryption detected"

HttpsWarning ==
    "This site doesn't use secure HTTPS encryption. Your data could be intercepted."

\* fault: the finding is pushed and the level is left as it was
HttpsRuleLevelKept(a, u) ==
    IF ~startsWith(u, "https://")
    THEN Fire(a, HttpsThreat, HttpsWarning, a.riskLevel, HttpsPenalty)
    ELSE a

HttpsRule(a, u) ==
    IF ~startsWith(u, "https://")
    THEN Fire(a, HttpsThreat, HttpsWarning, Escalate(a.riskLevel), HttpsPenalty)
    ELSE a

\* 4. subdomains masquerading as popular sites (lines 96-111)
SubdomainPenalty == 75

SubdomainBrands == {"google", "facebook", "microsoft", "apple", "amazon", "paypal"}
SecureBrands == {"bank", "paypal", "amazon", "microsoft"}

\* pattern.test(domain) for pattern i of suspiciousSubdomainPatterns
SubdomainPatternTest(i, domain) ==
    CASE i = 1 -> \E b \in SubdomainBrands :
                      MatchLitLetters(domain, "login." \o b \o ".com.", 2, FALSE)
      [] i = 2 -> \E b \in SecureBrands :
                      MatchLitLetters(domain, "secure." \o b \o ".com.", 2, FALSE)
      [] i = 3 -> \E b \in SubdomainBrands :
                      MatchLitLetters(domain, b \o ".com.", 2, TRUE)
      [] OTHER -> \E b \in SubdomainBrands :
                      MatchLitLetters(domain, "www." \o b \o "-", 1, TRUE)

SubdomainThreat == "Suspicious subdomain structure detected"

SubdomainWarning ==
    "This URL appears to mimic a legitimate site using fake subdomains. Real companies don't structure their URLs this way."

RECURSIVE SubdomainLoop(_, _, _)
SubdomainLoop(a, domain, i) ==
    IF i > 4 THEN a
    ELSE IF SubdomainPatternTest(i, domain)
    THEN SubdomainLoop(Fire(a, SubdomainThreat, SubdomainWarning, "dangerous",
                            SubdomainPenalty), domain, i + 1)
    ELSE SubdomainLoop(a, domain, i + 1)

SubdomainRule(a, domain) == SubdomainLoop(a, domain, 1)

\* 5. excessive length (lines 113-122)
LengthPenalty == 25

\* (fullUrl.match(/[0-9a-f]{8,}/g) || []).length: the greedy global match takes
\* every maximal run of 8 or more such characters once
HexRunCount(s) ==
    Cardinality({i \in 1..Len(s) :
        /\ i + 7 <= Len(s)
        /\ AllIn(SubSeq(s, i, i + 7), HexChars)
        /\ (i = 1 \/ Char(s, i - 1) \notin HexChars)})

LengthThreat(n) ==
    "Unusually long or obfuscated URL detected (" \o DecimalString(n) \o " characters)"

LengthWarning ==
    "This URL is unusually long and may be trying to hide its true destination."

\* fault: two runs of hexadecimal digits are enough
LengthRuleTwoRuns(a, fullUrl) ==
    IF Len(fullUrl) > 100 /\ (HexRunCount(fullUrl) >= 2 \/ Len(fullUrl) > 200)
    THEN Fire(a, LengthThreat(Len(fullUrl)), LengthWarning, Escalate(a.riskLevel),
              LengthPenalty)
    ELSE a

LengthRule(a, fullUrl) ==
    IF Len(fullUrl) > 100 /\ (HexRunCount(fullUrl) > 2 \/ Len(fullUrl) > 200)
    THEN Fire(a, LengthThreat(Len(fullUrl)), LengthWarning, Escalate(a.riskLevel),
              LengthPenalty)
    ELSE a

\* 7. open redirects (lines 124-141)
RedirectPenalty == 40

\* pattern.test(fullUrl) for pattern i of redirectPatterns
RedirectPatternTest(i, fullUrl) ==
    CASE i = 1 -> MatchGap(fullUrl, "redirect", "url=")
      [] i = 2 -> MatchGap(fullUrl, "goto", "url=")
      [] i = 3 -> MatchGap(fullUrl, "link", "to=")
      [] i = 4 -> MatchGap(fullUrl, "forward", "to=")
      [] i = 5 -> includes(fullUrl, "r.php?")
      [] OTHER -> includes(fullUrl, "go.php?")

RedirectThreat == "Potential open redirect detected"

RedirectWarning ==
    "This URL appears to redirect users to another site, which could be used to mask malicious destinations."

RECURSIVE RedirectLoop(_, _, _)
RedirectLoop(a, fullUrl, i) ==
    IF i > 6 THEN a
    ELSE IF RedirectPatternTest(i, fullUrl)
    THEN RedirectLoop(Fire(a, RedirectThreat, RedirectWarning, "suspicious",
                           RedirectPenalty), fullUrl, i + 1)
    ELSE RedirectLoop(a, fullUrl, i + 1)

RedirectRule(a, fullUrl) == RedirectLoop(a, fullUrl, 1)

\* 8. recently registered domains (lines 143-157)
NewDomainPenalty == 20

\* pattern.test(domain) for pattern i of newDomainIndicators
NewDomainPatternTest(i, domain) ==
    CASE i = 1 -> \E k \in 1..(Len(domain) - 3) :
                      AllIn(SubSeq(domain, k, k + 3), DigitChars)
      [] i = 2 -> \E w \in {"temp", "test", "demo", "staging"} : includes(domain, w)
      [] OTHER -> \E w \in {"new", "fresh", "latest"} : includes(domain, w)

NewDomainThreat == "Possible recently registered domain"

NewDomainWarning ==
    "This domain shows signs of being newly registered, which is common with scam sites."

RECURSIVE NewDomainLoop(_, _, _)
NewDomainLoop(a, domain, i) ==
    IF i > 3 THEN a
    ELSE IF NewDomainPatternTest(i, domain)
    THEN NewDomainLoop(Fire(a, NewDomainThreat, NewDomainWarning,
                            Escalate(a.riskLevel), NewDomainPenalty), domain, i + 1)
    ELSE NewDomainLoop(a, domain, i + 1)

NewDomainRule(a, domain) == NewDomainLoop(a, domain, 1)

\* 9. file downloads (lines 159-174)
DownloadPenalty == 60

DownloadExtensions == {"exe", "zip", "rar", "bat", "scr", "pif", "com", "jar"}

\* pattern.test(fullUrl) for pattern i of downloadPatterns
DownloadPatternTest(i, fullUrl) ==
    CASE i = 1 -> \E e \in DownloadExtensions : endsWith(fullUrl, "." \o e)
      [] i = 2 -> MatchGap(fullUrl, "download", "file")
      [] i = 3 -> MatchGap(fullUrl, "update", "exe")
      [] OTHER -> MatchGap(fullUrl, "install", "now")

DownloadThreat == "Potential file download detected"

DownloadWarning ==
    "This URL may automatically download files to your computer, which could be dangerous."

RECURSIVE DownloadLoop(_, _, _)
DownloadLoop(a, fullUrl, i) ==
    IF i > 4 THEN a
    ELSE IF DownloadPatternTest(i, fullUrl)
    THEN DownloadLoop(Fire(a, DownloadThreat, DownloadWarning, "dangerous",
                           DownloadPenalty), fullUrl, i + 1)
    ELSE DownloadLoop(a, fullUrl, i + 1)

DownloadRule(a, fullUrl) == DownloadLoop(a, fullUrl, 1)

\* brand typosquatting (lines 176-202)
brandPatterns == <<
    [brand |-> "paypal", severity |-> 60,
     legitimate |-> <<"paypal.com", "paypal.co.uk", "paypal.ca", "paypal.de", "paypal.fr">>],
    [brand |-> "amazon", severity |-> 55,
     legitimate |-> <<"amazon.com", "amazon.co.uk", "amazon.de", "amazon.fr",
                      "amazon.ca", "amazon.in", "amazon.jp">>],
    [brand |-> "microsoft", severity |-> 50,
     legitimate |-> <<"microsoft.com", "live.com", "outlook.com", "hotmail.com",
                      "xbox.com">>],
    [brand |-> "google", severity |-> 50,
     legitimate |-> <<"google.com", "gmail.com", "youtube.com", "google.co.uk",
                      "google.de", "google.fr">>],
    [brand |-> "apple", severity |-> 55,
     legitimate |-> <<"apple.com", "icloud.com", "mac.com", "me.com">>],
    [brand |-> "facebook", severity |-> 45,
     legitimate |-> <<"facebook.com", "fb.com", "meta.com", "instagram.com",
                      "whatsapp.com">>],
    [brand |-> "netflix", severity |-> 40, legitimate |-> <<"netflix.com">>],
    [brand |-> "spotify", severity |-> 35, legitimate |-> <<"spotify.com">>],
    [brand |-> "linkedin", severity |-> 40, legitimate |-> <<"linkedin.com">>],
    [brand |-> "twitter", severity |-> 40, legitimate |-> <<"twitter.com", "x.com">>] >>

UpperOf(c) ==
    IF \E i \in 1..26 : Char(LowerLetters, i) = c
    THEN Char(UpperLetters, CHOOSE i \in 1..26 : Char(LowerLetters, i) = c)
    ELSE c

\* brand.charAt(0).toUpperCase() + brand.slice(1)
Capitalize(s) == UpperOf(Char(s, 1)) \o SubSeq(s, 2, Len(s))

BrandThreat(brand) == "Possible " \o Capitalize(brand) \o " impersonation"

BrandWarning(brand) ==
    "This URL appears to impersonate " \o brand \o
    " but isn't the real website. Always verify URLs carefully."

\* fault: only the legitimate domains themselves pass, not their subdomains
isLegitimateExactOnly(pattern, domain) ==
    \E k \in 1..Len(pattern.legitimate) : domain = pattern.legitimate[k]

isLegitimate(pattern, domain) ==
    \E k \in 1..Len(pattern.legitimate) :
        domain = pattern.legitimate[k] \/ endsWith(domain, "." \o pattern.legitimate[k])

RECURSIVE BrandLoop(_, _, _)
BrandLoop(a, domain, i) ==
    IF i > Len(brandPatterns) THEN a
    ELSE LET pattern == brandPatterns[i]
         IN  IF includes(domain, pattern.brand) /\ ~isLegitimate(pattern, domain)
             THEN BrandLoop(Fire(a, BrandThreat(pattern.brand),
                                 BrandWarning(pattern.brand), "dangerous",
                                 pattern.severity), domain, i + 1)
             ELSE BrandLoop(a, domain, i + 1)

BrandRule(a, domain) == BrandLoop(a, domain, 1)

\* 13. suspicious top-level domains (lines 204-220)
TldPenalty == 25

suspiciousTlds == <<
    ".tk", ".ml", ".ga", ".cf", ".pw", ".top", ".click", ".download", ".stream",
    ".science", ".work", ".party", ".date", ".racing", ".review", ".faith",
    ".cricket", ".win", ".bid", ".loan", ".trade", ".accountant", ".men",
    ".xyz", ".club", ".online", ".site", ".website", ".space" >>

TldThreat(tld) == "High-risk domain extension: " \o tld

TldWarning(tld) ==
    "This website uses a domain extension (" \o tld \o
    ") that's commonly associated with spam and malicious sites."

\* the loop ends at its first match (break)
TldRule(a, domain) ==
    IF \E i \in 1..Len(suspiciousTlds) : endsWith(domain, suspiciousTlds[i])
    THEN LET i == CHOOSE i \in 1..Len(suspiciousTlds) :
                     /\ endsWith(domain, suspiciousTlds[i])
                     /\ \A j \in 1..(i - 1) : ~endsWith(domain, suspiciousTlds[j])
         IN  Fire(a, TldThreat(suspiciousTlds[i]), TldWarning(suspiciousTlds[i]),
                  Escalate(a.riskLevel), TldPenalty)
    ELSE a

\* URL shorteners (lines 222-237)
ShortenerPenalty == 20

urlShorteners == <<
    "bit.ly", "tinyurl.com", "t.co", "short.link", "goo.gl", "ow.ly",
    "is.gd", "buff.ly", "adf.ly", "bl.ink", "lnkd.in", "tiny.cc",
    "rb.gy", "shorturl.at", "cutt.ly", "bitly.com" >>

ShortenerThreat == "URL shortener detected - destination hidden"

ShortenerWarning ==
    "This is a shortened URL that hides the real destination. Be cautious as you can't see where it actually leads."

\* fault: the shortener block subtracts the penalty of the TLD block
ShortenerRuleTldPenalty(a, domain) ==
    IF \E i \in 1..Len(urlShorteners) : includes(domain, urlShorteners[i])
    THEN Fire(a, ShortenerThreat, ShortenerWarning, Escalate(a.riskLevel), TldPenalty)
    ELSE a

RECURSIVE ShortenerLoopNoBreak(_, _, _)
\* fault: the loop over the shorteners goes on after a match (no break)
ShortenerLoopNoBreak(a, domain, i) ==
    IF i > Len(urlShorteners) THEN a
    ELSE IF includes(domain, urlShorteners[i])
    THEN ShortenerLoopNoBreak(Fire(a, ShortenerThreat, ShortenerWarning,
                                   Escalate(a.riskLevel), ShortenerPenalty),
                              domain, i + 1)
    ELSE ShortenerLoopNoBreak(a, domain, i + 1)

ShortenerRuleNoBreak(a, domain) == ShortenerLoopNoBreak(a, domain, 1)

\* the loop ends at its first match (break)
ShortenerRule(a, domain) ==
    IF \E i \in 1..Len(urlShorteners) : includes(domain, urlShorteners[i])
    THEN Fire(a, ShortenerThreat, ShortenerWarning, Escalate(a.riskLevel),
              ShortenerPenalty)
    ELSE a

\* phishing keywords (lines 239-257)
KeywordPenalty == 50

phishingKeywords == <<
    "verify", "secure", "account", "update", "confirm", "login", "signin",
    "security", "suspended", "limited", "unusual", "activity", "locked",
    "billing", "payment", "invoice", "refund", "claim", "winner",
    "congratulations", "urgent", "immediate", "action", "required",
    "suspended", "violation", "expire", "expiry" >>

RECURSIVE KeywordFilter(_, _, _)
\* phishingKeywords.filter(...): the matching entries, in list order
KeywordFilter(domain, path, i) ==
    IF i > Len(phishingKeywords) THEN <<>>
    ELSE (IF includes(domain, phishingKeywords[i]) \/ includes(path, phishingKeywords[i])
          THEN <<phishingKeywords[i]>> ELSE <<>>) \o KeywordFilter(domain, path, i + 1)

foundKeywords(domain, pathname) == KeywordFilter(domain, toLowerCase(pathname), 1)

RECURSIVE Join(_, _)
\* Array.prototype.join
Join(ws, sep) ==
    IF ws = <<>> THEN ""
    ELSE IF Len(ws) = 1 THEN ws[1]
    ELSE ws[1] \o sep \o Join(Tail(ws), sep)

KeywordThreat(found) ==
    "Multiple urgent keywords detected: " \o
    Join(SubSeq(found, 1, IF Len(found) < 3 THEN Len(found) ELSE 3), ", ")

KeywordWarning ==
    "This URL contains multiple words designed to create urgency or fear. Legitimate companies rarely use such tactics."

KeywordRule(a, domain, pathname) ==
    LET found == foundKeywords(domain, pathname)
    IN  IF Len(found) >= 2
        THEN Fire(a, KeywordThreat(found), KeywordWarning, "dangerous", KeywordPenalty)
        ELSE a

\* IP address check (lines 259-265): /^\d+\.\d+\.\d+\.\d+/
IpPenalty == 35

RECURSIVE DigitGroups(_, _, _)
\* s from position i on starts with n groups of digits separated by full stops
DigitGroups(s, i, n) ==
    LET rest == SubSeq(s, i, Len(s))
        stop == FirstOf(rest, {c \in {Char(rest, k) : k \in 1..Len(rest)} :
                                  c \notin DigitChars})
    IN  /\ stop > 1
        /\ \/ n = 1
           \/ At(rest, stop, ".") /\ DigitGroups(s, i + stop, n - 1)

IpThreat == "IP address instead of domain name"

IpWarning ==
    "This URL uses an IP address instead of a proper domain name, which is unusual for legitimate websites."

IpRule(a, domain) ==
    IF DigitGroups(domain, 1, 4)
    THEN Fire(a, IpThreat, IpWarning, "suspicious", IpPenalty)
    ELSE a

\* Punycode check (lines 267-273)
PunycodePenalty == 40

PunycodeThreat == "Punycode domain detected (possible spoofing)"

PunycodeWarning ==
    "This URL uses special encoding that could be hiding its true appearance. This is sometimes used for spoofing."

PunycodeRule(a, domain) ==
    IF includes(domain, "xn--")
    THEN Fire(a, PunycodeThreat, PunycodeWarning, "suspicious", PunycodePenalty)
    ELSE a

\* fault: the clamp is left out
ClampOmitted(a) == a

\* score = Math.max(0, score) (line 275)
Clamp(a) == [a EXCEPT !.score = IF a.score < 0 THEN 0 ELSE a.score]

\* the catch block (lines 277-282)
FallbackScore == 30

InvalidThreat == "Invalid URL format"

InvalidWarning == "This URL format appears to be invalid or malformed."

\* fault: the catch block leaves the score as it is
CatchKeepsScore(a) ==
    [threats |-> Append(a.threats, InvalidThreat),
     warnings |-> Append(a.warnings, InvalidWarning),
     riskLevel |-> "suspicious", score |-> a.score]

Catch(a) ==
    [threats |-> Append(a.threats, InvalidThreat),
     warnings |-> Append(a.warnings, InvalidWarning),
     riskLevel |-> "suspicious", score |-> FallbackScore]

\* the sentinel (lines 284-287)
SentinelThreat == "No obvious threats detected"

SentinelWarning ==
    "This URL appears to be safe, but always exercise caution when clicking links."

\* fault: the sentinel is pushed without looking at threats.length
SentinelAlways(a) ==
    [a EXCEPT !.threats = Append(a.threats, SentinelThreat),
              !.warnings = Append(a.warnings, SentinelWarning)]

Sentinel(a) ==
    IF Len(a.threats) = 0
    THEN [a EXCEPT !.threats = Append(a.threats, SentinelThreat),
                   !.warnings = Append(a.warnings, SentinelWarning)]
    ELSE a

\* the whole of analyzeUrl's try/catch and sentinel, as one function of its
\* argument: the accumulator the return statement reads
Battery(a, u) ==
    LET urlObj == ParseURL(u)
        domain == toLowerCase(urlObj.hostname)
        fullUrl == toLowerCase(u)
        a1 == MisspellingRule(a, domain)
        a2 == HomographRule(a1, domain)
        a3 == HttpsRule(a2, u)
        a4 == SubdomainRule(a3, domain)
        a5 == LengthRule(a4, fullUrl)
        a6 == RedirectRule(a5, fullUrl)
        a7 == NewDomainRule(a6, domain)
        a8 == DownloadRule(a7, fullUrl)
        a9 == BrandRule(a8, domain)
        a10 == TldRule(a9, domain)
        a11 == ShortenerRule(a10, domain)
        a12 == KeywordRule(a11, domain, urlObj.pathname)
        a13 == IpRule(a12, domain)
        a14 == PunycodeRule(a13, domain)
    IN  Clamp(a14)

FinalAcc(u) == Sentinel(IF ParseURL(u).ok THEN Battery(SeedAcc, u) ELSE Catch(SeedAcc))

\* the return statement (lines 289-307); redirects and geoLocation are the
\* two Math.random() draws
GeoLocations == {"US", "CN", "RU", "Unknown"}

\* fault: the registrar label compares with >= 70
DetailsRegistrarFrom70(u, a, redirects, geoLocation) ==
    [domainAge |-> IF a.score > 80 THEN "Established (>1 year)"
                   ELSE IF a.score > 50 THEN "Moderate (6-12 months)"
                   ELSE "New/Unknown (<6 months)",
     ssl |-> startsWith(u, "https://"),
     reputation |-> IF a.score > 80 THEN "Excellent"
                    ELSE IF a.score > 60 THEN "Good"
                    ELSE IF a.score > 40 THEN "Moderate"
                    ELSE IF a.score > 20 THEN "Poor"
                    ELSE "Critical",
     typosquatting |-> \E i \in 1..Len(a.threats) :
                          \/ includes(a.threats[i], "typosquatting")
                          \/ includes(a.threats[i], "impersonation"),
     redirects |-> redirects,
     contentType |-> IF includes(u, ".php") THEN "Dynamic (PHP)" ELSE "Static/Unknown",
     geoLocation |-> geoLocation,
     registrar |-> IF a.score >= 70 THEN "Trusted" ELSE "Unknown/Suspicious",
     dnsRecords |-> IF a.score > 60 THEN "Valid" ELSE "Suspicious/Missing",
     securityHeaders |-> IF startsWith(u, "https://") /\ a.score > 70
                         THEN "Present" ELSE "Missing/Weak"]

Details(u, a, redirects, geoLocation) ==
    [domainAge |-> IF a.score > 80 THEN "Established (>1 year)"
                   ELSE IF a.score > 50 THEN "Moderate (6-12 months)"
                   ELSE "New/Unknown (<6 months)",
     ssl |-> startsWith(u, "https://"),
     reputation |-> IF a.score > 80 THEN "Excellent"
                    ELSE IF a.score > 60 THEN "Good"
                    ELSE IF a.score > 40 THEN "Moderate"
                    ELSE IF a.score > 20 THEN "Poor"
                    ELSE "Critical",
     typosquatting |-> \E i \in 1..Len(a.threats) :
                          \/ includes(a.threats[i], "typosquatting")
                          \/ includes(a.threats[i], "impersonation"),
     redirects |-> redirects,
     contentType |-> IF includes(u, ".php") THEN "Dynamic (PHP)" ELSE "Static/Unknown",
     geoLocation |-> geoLocation,
     registrar |-> IF a.score > 70 THEN "Trusted" ELSE "Unknown/Suspicious",
     dnsRecords |-> IF a.score > 60 THEN "Valid" ELSE "Suspicious/Missing",
     securityHeaders |-> IF startsWith(u, "https://") /\ a.score > 70
                         THEN "Present" ELSE "Missing/Weak"]

\* fault: the random redirect count is taken off the score
ScanResultRandomScore(u, a, redirects, geoLocation) ==
    [url |-> u, riskLevel |-> a.riskLevel,
     score |-> IF a.score >= redirects THEN a.score - redirects ELSE 0,
     threats |-> a.threats, warnings |-> a.warnings,
     details |-> Details(u, a, redirects, geoLocation)]

ScanResult(u, a, redirects, geoLocation) ==
    [url |-> u, riskLevel |-> a.riskLevel, score |-> a.score,
     threats |-> a.threats, warnings |-> a.warnings,
     details |-> Details(u, a, redirects, geoLocation)]

NoResult == [null |-> TRUE]

NoToast == [title |-> "none", variant |-> "default"]

\* the decision fields of a ScanResult
Decision(r) ==
    [riskLevel |-> r.riskLevel, score |-> r.score,
     threats |-> r.threats, warnings |-> r.warnings]

-----------------------------------------------------------------------------
(* handleScan (lines 310-346)                                              *)

\* fault: the input is prefixed without being trimmed
NormalizeInputUntrimmed(u) ==
    IF ~startsWith(u, "http://") /\ ~startsWith(u, "https://")
    THEN "https://" \o u
    ELSE u

\* lines 324-327
NormalizeInput(u) ==
    LET t == trim(u)
    IN  IF ~startsWith(t, "http://") /\ ~startsWith(t, "https://")
        THEN "https://" \o t
        ELSE t

\* scans that may wait on their timers at once
MaxPending == 2

Acc == [threats |-> threats, warnings |-> warnings, riskLevel |-> riskLevel,
        score |-> score]

SetAcc(a) ==
    /\ threats' = a.threats
    /\ warnings' = a.warnings
    /\ riskLevel' = a.riskLevel
    /\ score' = a.score

\* the parts of the URL the executing call works on (lines 46-48)
urlObj == ParseURL(urlToAnalyze)
domain == toLowerCase(urlObj.hostname)
fullUrl == toLowerCase(urlToAnalyze)

\* onChange of the input field (line 379)
SetUrl(u) ==
    /\ pc = "idle"
    /\ url # u
    /\ url' = u
    /\ UNCHANGED <<isScanning, result, toast, pending, pc, urlToAnalyze,
                   threats, warnings, riskLevel, score, seen, pvars>>

\* lines 320-329 and 36-38: the scan is started and waits on its timer
StartScan ==
    /\ Len(pending) < MaxPending
    /\ isScanning' = TRUE
    /\ result' = NoResult
    /\ pending' = Append(pending, NormalizeInput(url))
    /\ UNCHANGED toast

\* fault: handleScan without its check for a blank input
HandleScanNoBlankCheck ==
    /\ pc = "idle"
    /\ \E via \in {"button", "enter"} : via = "button" => ~isScanning
    /\ StartScan
    /\ UNCHANGED <<url, pc, urlToAnalyze, threats, warnings, riskLevel, score, seen, pvars>>

\* handleScan up to the await of analyzeUrl's timer (lines 310-329, 36-38),
\* from the button (disabled while scanning, line 385) or the Enter key
\* (line 381)
HandleScan ==
    /\ pc = "idle"
    /\ \E via \in {"button", "enter"} : via = "button" => ~isScanning
    /\ IF trim(url) = ""
       THEN /\ toast' = [title |-> "URL Required", variant |-> "destructive"]
            /\ UNCHANGED <<isScanning, result, pending>>
       ELSE StartScan
    /\ UNCHANGED <<url, pc, urlToAnalyze, threats, warnings, riskLevel, score, seen, pvars>>

\* the first user event of a session is a scan request
FirstScan ==
    /\ toast = NoToast /\ result = NoResult /\ pending = <<>> /\ ~isScanning
    /\ HandleScan

\* the 2000 ms timer of the oldest waiting call fires: lines 38-43
TimerFires ==
    /\ pc = "idle"
    /\ pending # <<>>
    /\ urlToAnalyze' = Head(pending)
    /\ pending' = Tail(pending)
    /\ SetAcc(SeedAcc)
    /\ pc' = "parse"
    /\ UNCHANGED <<url, isScanning, result, toast, seen, pvars>>

\* one block of analyzeUrl: from position `from` to position `to`
Step(from, to, a) ==
    /\ pc = from
    /\ pc' = to
    /\ SetAcc(a)
    /\ UNCHANGED <<url, isScanning, result, toast, pending, urlToAnalyze, seen, pvars>>

\* new URL(urlToAnalyze) (line 46); a throw lands in the catch block
Parse ==
    /\ pc = "parse"
    /\ IF urlObj.ok THEN Step("parse", "misspelling", Acc)
       ELSE Step("parse", "sentinel", Catch(Acc))

Misspelling == Step("misspelling", "homograph", MisspellingRule(Acc, domain))
Homograph == Step("homograph", "https", HomographRule(Acc, domain))
Https == Step("https", "subdomain", HttpsRule(Acc, urlToAnalyze))
Subdomain == Step("subdomain", "length", SubdomainRule(Acc, domain))
Length == Step("length", "redirect", LengthRule(Acc, fullUrl))
Redirect == Step("redirect", "newdomain", RedirectRule(Acc, fullUrl))
NewDomain == Step("newdomain", "download", NewDomainRule(Acc, domain))
Download == Step("download", "brand", DownloadRule(Acc, fullUrl))
Brand == Step("brand", "tld", BrandRule(Acc, domain))
Tld == Step("tld", "shortener", TldRule(Acc, domain))
Shortener == Step("shortener", "keywords", ShortenerRule(Acc, domain))
Keywords == Step("keywords", "ip", KeywordRule(Acc, domain, urlObj.pathname))
Ip == Step("ip", "punycode", IpRule(Acc, domain))
Punycode == Step("punycode", "clamp", PunycodeRule(Acc, domain))
ClampScore == Step("clamp", "sentinel", Clamp(Acc))
AppendSentinel == Step("sentinel", "return", Sentinel(Acc))

\* the return statement and the rest of handleScan (lines 289-307, 330-345)
Return ==
    /\ pc = "return"
    /\ \E redirects \in 0..2, geoLocation \in GeoLocations :
          result' = ScanResult(urlToAnalyze, Acc, redirects, geoLocation)
    /\ toast' = [title |-> "Scan Complete",
                 variant |-> IF riskLevel = "dangerous" THEN "destructive"
                             ELSE "default"]
    /\ isScanning' = FALSE
    /\ pc' = "idle"
    /\ urlToAnalyze' = ""
    /\ SetAcc(SeedAcc)
    /\ UNCHANGED <<url, pending, seen, pvars>>

\* history: keep the outcome of the scan on display for later comparison
Remember ==
    /\ pc = "idle"
    /\ result # NoResult
    /\ seen' = [url |-> result.url, decision |-> Decision(result)]
    /\ seen' # seen
    /\ UNCHANGED <<url, isScanning, result, toast, pending, pc, urlToAnalyze,
                   threats, warnings, riskLevel, score, pvars>>

RuleSteps ==
    \/ Parse \/ Misspelling \/ Homograph \/ Https \/ Subdomain \/ Length
    \/ Redirect \/ NewDomain \/ Download \/ Brand \/ Tld \/ Shortener
    \/ Keywords \/ Ip \/ Punycode \/ ClampScore \/ AppendSentinel

-----------------------------------------------------------------------------
(* The preview component (src/components/UrlPreview.tsx).  The scanner     *)
(* renders one instance while url is not empty and no scan is running; an  *)
(* instance that is removed loses its state, and the callbacks of its      *)
(* chains then only call state setters of the removed instance, which have *)
(* no effect.                                                              *)

null == ""

\* the characters of code 32 to 95 and 97 to 126, in code order
Ascii32to95 == " !\"#$%&'()*+,-./0123456789:;<=>?@ABCDEFGHIJKLMNOPQRSTUVWXYZ[\\]^_"
Ascii97to126 == "abcdefghijklmnopqrstuvwxyz{|}~"

CharCode(c) ==
    IF \E i \in 1..Len(Ascii32to95) : Char(Ascii32to95, i) = c
    THEN 31 + (CHOOSE i \in 1..Len(Ascii32to95) : Char(Ascii32to95, i) = c)
    ELSE 96 + (CHOOSE i \in 1..Len(Ascii97to126) : Char(Ascii97to126, i) = c)

HexDigit(n) == Char("0123456789ABCDEF", n + 1)

\* the characters encodeURIComponent leaves as they are (the two among them
\* that stand for non-Latin letters excepted)
UnreservedChars ==
    {Char(UpperLetters, i) : i \in 1..26} \cup LowerChars \cup DigitChars \cup
    {"-", "_", ".", "*", "'", "(", ")"}

\* the UTF-8 bytes of one character, percent-encoded
PercentEncode(c) ==
    CASE c = CyrillicO -> "%D0%BE"
      [] c = GreekAlpha -> "%CE%B1"
      [] c = MathBoldA -> "%F0%9D%90%9A"
      [] OTHER -> "%" \o HexDigit(CharCode(c) \div 16) \o HexDigit(CharCode(c) % 16)

\* what encodeURIComponent makes of each character
Encoded ==
    [c \in CharsOf(Ascii32to95) \cup CharsOf(Ascii97to126) |->
        IF c \in UnreservedChars THEN c ELSE PercentEncode(c)]

RECURSIVE EncodeFrom(_, _)
\* the characters of s from position i on, each kept or percent-encoded
EncodeFrom(s, i) ==
    IF i > Len(s) THEN "" ELSE Encoded[Char(s, i)] \o EncodeFrom(s, i + 1)

encodeURIComponent(s) == EncodeFrom(s, 1)

\* screenshotServices[i].generateUrl(targetUrl) (lines 16-37)
screenshotServices == <<
    [name |-> "Screenshot API",
     prefix |-> "https://shot.screenshotapi.net/screenshot?token=demo&url=",
     suffix |-> "&width=1200&height=800&output=image&file_type=png&wait_for_event=load"],
    [name |-> "Htmlcsstoimage",
     prefix |-> "https://hcti.io/v1/image?url=",
     suffix |-> "&viewport_width=1200&viewport_height=800"],
    [name |-> "URL2PNG",
     prefix |-> "https://api.url2png.com/v6/demo/demo/png/?url=",
     suffix |-> "&viewport=1200x800&thumbnail_max_width=600"],
    [name |-> "Webshot",
     prefix |-> "https://api.apiflash.com/v1/urltoimage?access_key=demo&url=",
     suffix |-> "&width=1200&height=800&delay=2&fresh=true"] >>

\* serviceIndex counts from 0
generateUrl(serviceIndex, target) ==
    screenshotServices[serviceIndex + 1].prefix \o encodeURIComponent(target) \o
    screenshotServices[serviceIndex + 1].suffix

\* lines 47-50
targetUrl(u) ==
    LET t == trim(u)
    IN  IF ~startsWith(t, "http://") /\ ~startsWith(t, "https://")
        THEN "https://" \o t
        ELSE t

AllFailed == "All preview services failed"

\* generatePreview chains one instance may start
MaxLookups == 2

\* the scanner's own state, which no step of the preview component changes
svars == <<isScanning, result, toast, pending, pc, urlToAnalyze,
           threats, warnings, riskLevel, score, seen>>

\* useState initial values (lines 11-14), no timer, no chain
FreshPreview ==
    /\ previewUrl = null
    /\ isLoading = FALSE
    /\ error = null
    /\ currentService = 0
    /\ debounce = null
    /\ lookups = <<>>

\* the scanner starts to render the component, for url u: initial state and
\* the first run of the effect (lines 90-101)
Mount(u) ==
    /\ ~mounted
    /\ u # ""
    /\ mounted' = TRUE
    /\ url' = u
    /\ previewUrl' = null
    /\ isLoading' = FALSE
    /\ error' = null
    /\ currentService' = 0
    /\ debounce' = u
    /\ lookups' = <<>>
    /\ UNCHANGED svars

\* the scanner stops rendering the component (url emptied or a scan
\* started): the effect's cleanup clears the timer (line 100)
Unmount ==
    /\ mounted
    /\ mounted' = FALSE
    /\ url' \in {"", url}
    /\ previewUrl' = null
    /\ isLoading' = FALSE
    /\ error' = null
    /\ currentService' = 0
    /\ debounce' = null
    /\ lookups' = <<>>
    /\ UNCHANGED svars

\* the url prop changes: cleanup of the last effect, then the effect
\* (lines 90-101)
UrlPropChanged(u) ==
    /\ mounted
    /\ u # "" /\ u # url
    /\ url' = u
    /\ debounce' = u
    /\ UNCHANGED <<mounted, previewUrl, isLoading, error, currentService, lookups, svars>>

\* generatePreview(0) of the render with url u, up to the await (lines 39-71)
StartLookup(u) ==
    /\ Len(lookups) < MaxLookups
    /\ IF u = "" THEN UNCHANGED <<isLoading, error, lookups>>
       ELSE /\ isLoading' = TRUE
            /\ error' = null
            /\ lookups' = Append(lookups, [url |-> u, serviceIndex |-> 0,
                                           phase |-> "loading", tried |-> <<0>>])
    /\ UNCHANGED <<previewUrl, currentService>>

\* the 1000 ms timer fires (lines 96-98)
DebounceFires ==
    /\ mounted
    /\ debounce # null
    /\ StartLookup(debounce)
    /\ debounce' = null
    /\ UNCHANGED <<url, mounted, svars>>

\* the RETRY button, rendered while error is set (lines 103-105, 116-126)
RetryPreview ==
    /\ mounted
    /\ error # null
    /\ StartLookup(url)
    /\ UNCHANGED <<url, mounted, debounce, svars>>

\* img.onload of chain k: lines 62-65, 73-74, 86
ImageLoads(k) ==
    /\ k \in 1..Len(lookups)
    /\ lookups[k].phase = "loading"
    /\ lookups' = [lookups EXCEPT ![k].phase = "loaded"]
    /\ currentService' = lookups[k].serviceIndex
    /\ isLoading' = FALSE
    /\ previewUrl' = generateUrl(lookups[k].serviceIndex, targetUrl(lookups[k].url))
    /\ UNCHANGED <<url, mounted, error, debounce, svars>>

\* fault: the last service is never tried
ImageFailsBeforeLast(k) ==
    /\ k \in 1..Len(lookups)
    /\ lookups[k].phase = "loading"
    /\ IF lookups[k].serviceIndex < Len(screenshotServices) - 2
       THEN /\ lookups' = [lookups EXCEPT ![k].phase = "waiting"]
            /\ UNCHANGED error
       ELSE /\ error' = AllFailed
            /\ lookups' = [lookups EXCEPT ![k].phase = "failed"]
    /\ isLoading' = FALSE
    /\ UNCHANGED <<url, mounted, previewUrl, currentService, debounce, svars>>

\* img.onerror of chain k: lines 66-69, 75-87
ImageFails(k) ==
    /\ k \in 1..Len(lookups)
    /\ lookups[k].phase = "loading"
    /\ IF lookups[k].serviceIndex < Len(screenshotServices) - 1
       THEN /\ lookups' = [lookups EXCEPT ![k].phase = "waiting"]
            /\ UNCHANGED error
       ELSE /\ error' = AllFailed
            /\ lookups' = [lookups EXCEPT ![k].phase = "failed"]
    /\ isLoading' = FALSE
    /\ UNCHANGED <<url, mounted, previewUrl, currentService, debounce, svars>>

\* the 500 ms timer of chain k fires: generatePreview(serviceIndex + 1) of
\* the same render (line 80, then lines 39-71)
RetryTimerFires(k) ==
    /\ k \in 1..Len(lookups)
    /\ lookups[k].phase = "waiting"
    /\ isLoading' = TRUE
    /\ error' = null
    /\ lookups' = [lookups EXCEPT ![k].phase = "loading",
                                  ![k].serviceIndex = @ + 1,
                                  ![k].tried = Append(@, lookups[k].serviceIndex + 1)]
    /\ UNCHANGED <<url, mounted, previewUrl, currentService, debounce, svars>>

\* onError of the displayed image (lines 154-159)
DisplayImageFails ==
    /\ mounted
    /\ previewUrl # null /\ ~isLoading /\ error = null
    /\ error' = "Failed to load preview image"
    /\ UNCHANGED <<url, mounted, previewUrl, isLoading, currentService, debounce, lookups, svars>>

-----------------------------------------------------------------------------
(* The inputs.                                                             *)

Prefixes == {"", "https://", "http://", " "}

Hosts == {
    "example.org", "example.com", "gooogle.com", "GOOOGLE.COM", "googel.net",
    "amazon.com", "mail.google.com", "paypal.com", "PayPaI.com",
    "secure-paypal-login.tk", "bit.ly", "microsoft.com", "192.168.1.1", "1.2.3",
    "xn--80ak6aa92e.com", "g" \o CyrillicO \o "ogle.com", GreekAlpha \o "pple.com",
    MathBoldA \o "pple.com", "login.paypal.com.evil.ru", "www.google-support.com",
    "test1234.xyz", "facebook-latest.club", "a b.com", "netflixx.com" }

Paths == {
    "", "/about", "/login", "/verify?confirm=1", "/redirect?url=evil.org",
    "/setup.exe", "/account/update.exe", "/Secure/Login ", "/go.php?goto=1&url=2" }

HexSegment == "0123456789abcdef"

LongPath(sep) ==
    "/files/" \o HexSegment \o sep \o HexSegment \o sep \o HexSegment \o sep \o
    "this-is-a-long-path-without-hex-runs/and-more-of-the-same/index"

\* a path with two runs of hexadecimal digits
TwoRunPath ==
    "/files/" \o HexSegment \o "/" \o HexSegment \o
    "/this-is-a-long-path-without-hex-runs/and-more-of-the-same/index"

Specials == {
    "", "   ", "::::", "https://", "http://", "HTTP://example.org/about",
    "https://bit.ly/abc123", "https://t.co.bit.ly/abc",
    "https://example.org/suspended", "https://amazone-paypal.net/about",
    "https://google.com/about", "https://facebook.com/about",
    "https://example.org" \o TwoRunPath,
    "https://example.org" \o LongPath("/"),
    "https://example.org" \o LongPath(""),
    "https://example.org" \o LongPath("/") \o LongPath("/x/") \o LongPath("/y/") }

Inputs == {p \o h \o q : p \in Prefixes, h \in Hosts, q \in Paths} \cup Specials

UiInputs == {"", "example.org/about", "https://gooogle.com/login"}

-----------------------------------------------------------------------------
(* Specifications.                                                         *)

InitWith(u) ==
    /\ url = u
    /\ isScanning = FALSE
    /\ result = NoResult
    /\ toast = NoToast
    /\ pending = <<>>
    /\ pc = "idle"
    /\ urlToAnalyze = ""
    /\ threats = SeedAcc.threats
    /\ warnings = SeedAcc.warnings
    /\ riskLevel = SeedAcc.riskLevel
    /\ score = SeedAcc.score
    /\ seen = NoResult
    /\ mounted = FALSE
    /\ FreshPreview

\* one scan of any input
Init == \E u \in Inputs : InitWith(u)

Next == FirstScan \/ TimerFires \/ RuleSteps \/ Return

Spec == Init /\ [][Next]_vars

\* the component from its construction: typing, scanning, scanning again
InitUI == InitWith("")

NextUI ==
    \/ \E u \in UiInputs : SetUrl(u)
    \/ HandleScan \/ TimerFires \/ RuleSteps \/ Return \/ Remember

SpecUI == InitUI /\ [][NextUI]_vars

PreviewInputs == {"example.org", " https://gooogle.com/login?next=a b"}

\* the preview component on its own: the scanner mounts it, changes its
\* prop and unmounts it; images load or fail and timers fire
InitPreview == InitWith("")

NextPreview ==
    \/ \E u \in PreviewInputs : Mount(u)
    \/ \E u \in PreviewInputs : UrlPropChanged(u)
    \/ Unmount \/ DebounceFires \/ RetryPreview \/ DisplayImageFails
    \/ \E k \in 1..MaxLookups : ImageLoads(k)
    \/ \E k \in 1..MaxLookups : ImageFails(k)
    \/ \E k \in 1..MaxLookups : RetryTimerFires(k)

\* an image request ends with onload or onerror and a 500 ms timer fires:
\* while some chain has one of them outstanding, one of them happens
ChainAdvances ==
    \E k \in 1..MaxLookups : ImageFails(k) \/ RetryTimerFires(k) \/ ImageLoads(k)

SpecPreview ==
    /\ InitPreview
    /\ [][NextPreview]_vars
    /\ WF_vars(ChainAdvances)

-----------------------------------------------------------------------------
(* Properties.                                                             *)

Rank(lvl) == CASE lvl = "safe" -> 0 [] lvl = "suspicious" -> 1 [] OTHER -> 2

\* a call of analyzeUrl is between its seeding and its return statement
InBattery == pc \notin {"idle", "return"}

\* handleScan has run to its end for the input in the field
ScanHandled == pc = "idle" /\ pending = <<>> /\ ~isScanning /\ toast # NoToast

HasScheme(u) == startsWith(u, "http://") \/ startsWith(u, "https://")

FallbackDecision ==
    [riskLevel |-> "suspicious", score |-> FallbackScore,
     threats |-> <<InvalidThreat>>, warnings |-> <<InvalidWarning>>]

\* the penalty the rule behind threat message t subtracts
FindingPenalty(t) ==
    CASE startsWith(t, "Possible misspelling detected") -> MisspellingPenalty
      [] t = HomographThreat -> HomographPenalty
      [] t = HttpsThreat -> HttpsPenalty
      [] t = SubdomainThreat -> SubdomainPenalty
      [] startsWith(t, "Unusually long") -> LengthPenalty
      [] t = RedirectThreat -> RedirectPenalty
      [] t = NewDomainThreat -> NewDomainPenalty
      [] t = DownloadThreat -> DownloadPenalty
      [] \E i \in 1..Len(brandPatterns) : t = BrandThreat(brandPatterns[i].brand) ->
            brandPatterns[CHOOSE i \in 1..Len(brandPatterns) :
                              t = BrandThreat(brandPatterns[i].brand)].severity
      [] startsWith(t, "High-risk domain extension") -> TldPenalty
      [] t = ShortenerThreat -> ShortenerPenalty
      [] startsWith(t, "Multiple urgent keywords") -> KeywordPenalty
      [] t = IpThreat -> IpPenalty
      [] t = PunycodeThreat -> PunycodePenalty
      [] OTHER -> 0

RECURSIVE PenaltySum(_)
PenaltySum(ts) == IF ts = <<>> THEN 0 ELSE FindingPenalty(Head(ts)) + PenaltySum(Tail(ts))

\* C1 (as claimed): within one call of analyzeUrl the risk level never goes
\* down from one rule block to the next.
C1_LevelNeverDecreases ==
    [][InBattery => Rank(riskLevel') >= Rank(riskLevel)]_vars

\* C2: the score of every returned ScanResult is in 0..100; it is
\* max(0, 100 - sum of the penalties of its findings) when the analysed URL
\* parses and 30 when it does not; the running score never exceeds 100.
C2_ScoreRange ==
    /\ score <= 100
    /\ result # NoResult =>
          /\ result.score \in 0..100
          /\ IF ParseURL(result.url).ok
             THEN result.score =
                      (IF PenaltySum(result.threats) > 100 THEN 0
                       ELSE 100 - PenaltySum(result.threats))
             ELSE result.score = FallbackScore

\* a result whose penalties add up to more than 100, clamped to 0
C2_Witness ==
    /\ result # NoResult
    /\ PenaltySum(result.threats) > 100
    /\ result.score = 0

\* the threat/warning pairs one firing pushes, per rule
FindingPairs ==
    UNION {{<<MisspellingThreat(commonMisspellings[i].misspelled[j],
                                commonMisspellings[i].correct),
              MisspellingWarning(commonMisspellings[i].correct)>> :
               j \in 1..Len(commonMisspellings[i].misspelled)} :
           i \in 1..Len(commonMisspellings)} \cup
    {<<BrandThreat(brandPatterns[i].brand), BrandWarning(brandPatterns[i].brand)>> :
        i \in 1..Len(brandPatterns)} \cup
    {<<TldThreat(suspiciousTlds[i]), TldWarning(suspiciousTlds[i])>> :
        i \in 1..Len(suspiciousTlds)} \cup
    {<<HomographThreat, HomographWarning>>, <<HttpsThreat, HttpsWarning>>,
     <<SubdomainThreat, SubdomainWarning>>, <<RedirectThreat, RedirectWarning>>,
     <<NewDomainThreat, NewDomainWarning>>, <<DownloadThreat, DownloadWarning>>,
     <<ShortenerThreat, ShortenerWarning>>, <<IpThreat, IpWarning>>,
     <<PunycodeThreat, PunycodeWarning>>, <<InvalidThreat, InvalidWarning>>,
     <<SentinelThreat, SentinelWarning>>}

\* warning w is the one pushed together with threat t
PushedTogether(t, w) ==
    \/ <<t, w>> \in FindingPairs
    \/ startsWith(t, "Unusually long") /\ w = LengthWarning
    \/ startsWith(t, "Multiple urgent keywords") /\ w = KeywordWarning

Paired(ts, ws) ==
    /\ Len(ts) = Len(ws)
    /\ \A i \in 1..Len(ts) : PushedTogether(ts[i], ws[i])

IsPrefix(xs, ys) == Len(xs) <= Len(ys) /\ SubSeq(ys, 1, Len(xs)) = xs

\* C3: threats and warnings have the same length and correspond position by
\* position, in the executing call and in every result; within a call each
\* step extends both lists by the same number of entries and removes none.
C3_ThreatsWarningsPaired ==
    /\ [](Paired(threats, warnings) /\ (result # NoResult => Paired(result.threats, result.warnings)))
    /\ [][InBattery =>
            /\ IsPrefix(threats, threats')
            /\ IsPrefix(warnings, warnings')
            /\ Len(threats') - Len(threats) = Len(warnings') - Len(warnings)]_vars

\* a result with findings of three different rules, in battery order
C3_Witness ==
    /\ result # NoResult
    /\ Len(result.threats) = 3
    /\ result.threats[1] = BrandThreat("paypal")
    /\ result.warnings[2] = TldWarning(".tk")
    /\ result.warnings[3] = KeywordWarning

\* positions of the rule blocks inside the try
RulePositions ==
    {"misspelling", "homograph", "https", "subdomain", "length", "redirect",
     "newdomain", "download", "brand", "tld", "shortener", "keywords", "ip",
     "punycode", "clamp"}

\* C4: when the URL does not parse, no rule block runs and the scan returns
\* exactly the fallback result; the Scan Failed toast is never shown.
C4_ParseFailureFallback ==
    /\ pc \in RulePositions => urlObj.ok
    /\ (InBattery \/ pc = "return") /\ pc # "parse" /\ ~urlObj.ok => Acc = FallbackDecision
    /\ result # NoResult /\ ~ParseURL(result.url).ok =>
          Decision(result) = FallbackDecision
    /\ toast.title # "Scan Failed"

C4_Witness ==
    /\ result # NoResult
    /\ result.url = "https://::::"
    /\ ~ParseURL(result.url).ok
    /\ toast.title = "Scan Complete"

\* the input cannot be scanned as a URL: blank, or not parsable after prefixing
Malformed(u) == trim(u) = "" \/ ~ParseURL(NormalizeInput(u)).ok

\* C5 (as claimed): every malformed input, the empty string included, ends
\* with the fallback result.
C5_MalformedYieldsFallback ==
    ScanHandled /\ Malformed(url) =>
        result # NoResult /\ Decision(result) = FallbackDecision

\* C5 (amended): a malformed input that is not blank ends with the fallback
\* result; a blank input ends with the URL Required toast and no result.
C5_MalformedAmended ==
    ScanHandled /\ Malformed(url) =>
        IF trim(url) = ""
        THEN result = NoResult /\ toast.title = "URL Required"
        ELSE result # NoResult /\ Decision(result) = FallbackDecision

C5_Witness ==
    /\ ScanHandled
    /\ url = "::::"
    /\ result # NoResult
    /\ Decision(result) = FallbackDecision

\* C6: a completed scan has the decision fields of every earlier completed
\* scan of the same URL.
C6_SameInputSameDecision ==
    result # NoResult /\ seen # NoResult /\ seen.url = result.url =>
        Decision(result) = seen.decision

\* the same URL scanned again after a scan of another URL, with other
\* random details
C6_Witness ==
    /\ result # NoResult /\ seen # NoResult
    /\ seen.url = result.url
    /\ seen.url = "https://gooogle.com/login"
    /\ url # seen.url
    /\ Decision(result) = seen.decision
    /\ result.details.redirects = 2

\* what handleScan leaves for input u: no result, or the decision fields
Outcome(u) == IF trim(u) = "" THEN NoResult ELSE FinalAcc(NormalizeInput(u))

Observed == IF result = NoResult THEN NoResult ELSE Decision(result)

\* C7 (as claimed): an input without scheme is scanned like 'https://' + input.
C7_PrefixEquivalence ==
    ScanHandled /\ ~HasScheme(url) => Observed = Outcome("https://" \o url)

\* C7 (amended): an input whose trimmed form t is not empty and has no
\* scheme is scanned like 'https://' + t; one whose trimmed form has a
\* scheme is analysed as that trimmed form; a blank input is not scanned.
C7_PrefixEquivalenceAmended ==
    ScanHandled =>
        LET t == trim(url)
        IN  IF t = "" THEN result = NoResult
            ELSE /\ result # NoResult
                 /\ result.url = (IF HasScheme(t) THEN t ELSE "https://" \o t)
                 /\ Observed = Outcome(result.url)

C7_Witness ==
    /\ ScanHandled
    /\ url = " gooogle.com/login"
    /\ result # NoResult
    /\ result.url = "https://gooogle.com/login"
    /\ result.score = 30

SentinelDecision ==
    [riskLevel |-> "safe", score |-> 100,
     threats |-> <<SentinelThreat>>, warnings |-> <<SentinelWarning>>]

\* a holds the sentinel alone with the seed values, or findings and no sentinel
SentinelOrFindings(a) ==
    \/ a = SentinelDecision
    \/ /\ Len(a.threats) >= 1
       /\ \A i \in 1..Len(a.threats) : a.threats[i] # SentinelThreat
       /\ \A i \in 1..Len(a.warnings) : a.warnings[i] # SentinelWarning

\* C8: a call that reaches the sentinel step without a finding has level
\* safe and score 100 and returns the sentinel pair alone; a call with a
\* finding returns no sentinel; https://example.org/about returns the
\* sentinel result.
C8_SentinelOnlyWhenNoFinding ==
    /\ pc = "sentinel" /\ threats = <<>> => riskLevel = "safe" /\ score = 100
    /\ pc = "sentinel" /\ threats # <<>> => riskLevel # "safe" /\ score < 100
    /\ pc = "return" => SentinelOrFindings(Acc)
    /\ result # NoResult => SentinelOrFindings(Decision(result))
    /\ result # NoResult /\ result.url = "https://example.org/about" =>
          Decision(result) = SentinelDecision

C8_Witness ==
    /\ result # NoResult
    /\ result.url = "https://example.org/about"
    /\ Decision(result) = SentinelDecision

GooogleUrl == "https://gooogle.com/login"

\* C9: the result for https://gooogle.com/login is dangerous, has a
\* misspelling finding that names google, and a score of at most 30.
C9_GooogleLogin ==
    result # NoResult /\ result.url = GooogleUrl =>
        /\ result.riskLevel = "dangerous"
        /\ result.score <= 30
        /\ \E i \in 1..Len(result.threats) :
              /\ startsWith(result.threats[i], "Possible misspelling detected")
              /\ endsWith(result.threats[i], "(looks like google)")
              /\ result.warnings[i] = MisspellingWarning("google")

C9_Witness ==
    /\ result # NoResult
    /\ result.url = GooogleUrl
    /\ result.threats = <<MisspellingThreat("gooogle", "google")>>
    /\ result.score = 30

PaypalTkUrl == "https://secure-paypal-login.tk/verify?confirm=1"

\* C10: the result for https://secure-paypal-login.tk/verify?confirm=1 holds
\* a brand-impersonation, a suspicious-TLD and a phishing-keyword finding and
\* is dangerous; the level the brand finding set stays dangerous through the
\* TLD block.
C10_PaypalTk ==
    /\ urlToAnalyze = PaypalTkUrl /\ pc \in {"tld", "shortener", "keywords"} =>
          riskLevel = "dangerous"
    /\ result # NoResult /\ result.url = PaypalTkUrl =>
          /\ result.riskLevel = "dangerous"
          /\ \E i, j, k \in 1..Len(result.threats) :
                /\ result.threats[i] = BrandThreat("paypal")
                /\ result.threats[j] = TldThreat(".tk")
                /\ startsWith(result.threats[k], "Multiple urgent keywords detected")

C10_Witness ==
    /\ result # NoResult
    /\ result.url = PaypalTkUrl
    /\ result.riskLevel = "dangerous"
    /\ Len(result.threats) = 3
    /\ result.score = 0

\* C11: a result whose only finding is the URL-shortener finding is
\* suspicious with score 100 - 20 = 80; so is the result for
\* https://bit.ly/abc123; when the shortener block fires on a call without
\* earlier findings it leaves level suspicious and score 80.
C11_ShortenerOnly ==
    /\ result # NoResult /\ result.threats = <<ShortenerThreat>> =>
          /\ result.riskLevel = "suspicious"
          /\ result.score = 100 - ShortenerPenalty
          /\ result.score = 80
          /\ result.warnings = <<ShortenerWarning>>
    /\ result # NoResult /\ result.url = "https://bit.ly/abc123" =>
          result.threats = <<ShortenerThreat>>
    /\ pc = "keywords" /\ threats = <<ShortenerThreat>> =>
          riskLevel = "suspicious" /\ score = 80

C11_Witness ==
    /\ result # NoResult
    /\ result.url = "https://bit.ly/abc123"
    /\ result.threats = <<ShortenerThreat>>
    /\ result.riskLevel = "suspicious"
    /\ result.score = 80

\* r holds a finding of the excessive-length rule
LengthFinding(r) ==
    \E i \in 1..Len(r.threats) :
        startsWith(r.threats[i], "Unusually long or obfuscated URL detected")

\* the excessive-length finding is in a result exactly when the lower-cased
\* URL is longer than 100 and has at least minRuns runs of 8 or more
\* characters of 0-9a-f, or is longer than 200
LengthFindingIff(minRuns) ==
    result # NoResult /\ ParseURL(result.url).ok =>
        LET f == toLowerCase(result.url)
        IN  LengthFinding(result) <=>
                Len(f) > 100 /\ (HexRunCount(f) >= minRuns \/ Len(f) > 200)

\* C12 (as claimed): the excessive-length rule fires exactly when the URL is
\* longer than 100 characters and has at least 2 hex-like runs or is longer
\* than 200 characters.
C12_LengthRuleTwoRuns == LengthFindingIff(2)

\* C12 (amended): the rule fires exactly when the URL is longer than 100
\* characters and has at least 3 hex-like runs or is longer than 200
\* characters; the finding states the length, and a result with this finding
\* alone is suspicious with score 75.
C12_LengthRuleThreeRuns ==
    /\ LengthFindingIff(3)
    /\ result # NoResult /\ LengthFinding(result) =>
          \E i \in 1..Len(result.threats) :
              /\ result.threats[i] = LengthThreat(Len(result.url))
              /\ result.warnings[i] = LengthWarning
    /\ result # NoResult /\ Len(result.threats) = 1 /\ LengthFinding(result) =>
          result.riskLevel = "suspicious" /\ result.score = 100 - LengthPenalty

\* a URL of 140 characters with three runs, found too long
C12_Witness ==
    /\ result # NoResult
    /\ Len(result.url) \in 101..200
    /\ HexRunCount(toLowerCase(result.url)) = 3
    /\ result.threats = <<LengthThreat(140)>>
    /\ result.score = 75

\* r holds the finding of the phishing-keyword rule
KeywordFinding(r) ==
    \E i \in 1..Len(r.threats) :
        startsWith(r.threats[i], "Multiple urgent keywords detected")

\* the distinct terms of the keyword list that occur in the host or the path of u
DistinctKeywords(u) ==
    LET host == toLowerCase(ParseURL(u).hostname)
        path == toLowerCase(ParseURL(u).pathname)
    IN  {phishingKeywords[i] : i \in
            {k \in 1..Len(phishingKeywords) :
                includes(host, phishingKeywords[k]) \/ includes(path, phishingKeywords[k])}}

\* C13 (as claimed): the phishing-keyword finding is in a result exactly when
\* at least 2 distinct terms of the keyword list occur in the host or the
\* path; with one distinct term there is no keyword finding.
C13_TwoDistinctKeywords ==
    result # NoResult /\ ParseURL(result.url).ok =>
        (KeywordFinding(result) <=> Cardinality(DistinctKeywords(result.url)) >= 2)

\* the host the rules see for URL u
HostOf(u) == toLowerCase(ParseURL(u).hostname)

\* how often message t is in the list ts
CountOf(ts, t) == Cardinality({i \in 1..Len(ts) : ts[i] = t})

\* host contains the brand token of entry i and is none of its legitimate
\* domains nor a subdomain of one
Impersonates(host, i) ==
    /\ includes(host, brandPatterns[i].brand)
    /\ \A k \in 1..Len(brandPatterns[i].legitimate) :
          /\ host # brandPatterns[i].legitimate[k]
          /\ ~endsWith(host, "." \o brandPatterns[i].legitimate[k])

\* C14: a result has one impersonation finding for a brand when the host
\* impersonates it and none otherwise; after the brand block a call with an
\* impersonation finding is dangerous and its score is 100 minus the
\* penalties of its findings, each brand's own penalty lying in 35..60.
C14_BrandImpersonation ==
    /\ result # NoResult =>
          LET parsed == ParseURL(result.url)
              host == toLowerCase(parsed.hostname)
          IN  parsed.ok =>
                  \A i \in 1..Len(brandPatterns) :
                      CountOf(result.threats, BrandThreat(brandPatterns[i].brand)) =
                          (IF Impersonates(host, i) THEN 1 ELSE 0)
    /\ pc = "tld" =>
          \A i \in 1..Len(brandPatterns) :
              CountOf(threats, BrandThreat(brandPatterns[i].brand)) = 1 =>
                  /\ riskLevel = "dangerous"
                  /\ score = 100 - PenaltySum(threats)
                  /\ FindingPenalty(BrandThreat(brandPatterns[i].brand)) =
                         brandPatterns[i].severity
                  /\ brandPatterns[i].severity \in 35..60
                  /\ CountOf(warnings, BrandWarning(brandPatterns[i].brand)) = 1

\* a host that impersonates two brands, with a finding for each
C14_Witness ==
    /\ result # NoResult
    /\ result.url = "https://amazone-paypal.net/about"
    /\ CountOf(result.threats, BrandThreat("paypal")) = 1
    /\ CountOf(result.threats, BrandThreat("amazon")) = 1
    /\ CountOf(result.threats, BrandThreat("google")) = 0

\* the findings the step being taken appends
NewThreats == SubSeq(threats', Len(threats) + 1, Len(threats'))
NewWarnings == SubSeq(warnings', Len(warnings) + 1, Len(warnings'))

\* the entries of the misspelling dictionary that occur in host d
MisspellingMatches(d) ==
    UNION {{<<i, j>> : j \in {k \in 1..Len(commonMisspellings[i].misspelled) :
                                 includes(d, commonMisspellings[i].misspelled[k])}} :
           i \in 1..Len(commonMisspellings)}

\* the step appends n threat/warning pairs, the threats being those of ts,
\* and subtracts the penalty of each of them
AppendsEach(n, ts) ==
    /\ Len(NewThreats) = n
    /\ Len(NewWarnings) = n
    /\ {NewThreats[k] : k \in 1..n} = ts
    /\ \A k \in 1..n : PushedTogether(NewThreats[k], NewWarnings[k])
    /\ score' = score - PenaltySum(NewThreats)

\* C15: the misspelling, homograph, subdomain and brand blocks append one
\* threat/warning pair for every matching entry of their list and subtract
\* the penalty of every one of them, without a clamp in between.
C15_EveryMatchFires ==
    [][/\ pc = "misspelling" =>
            LET m == MisspellingMatches(domain)
            IN  /\ AppendsEach(Cardinality(m),
                       {MisspellingThreat(commonMisspellings[e[1]].misspelled[e[2]],
                                          commonMisspellings[e[1]].correct) : e \in m})
                /\ score' = score - MisspellingPenalty * Cardinality(m)
       /\ pc = "homograph" =>
            LET m == {i \in 1..Len(homographPatterns) :
                         \E k \in 1..Len(domain) : Char(domain, k) \in homographPatterns[i]}
            IN  /\ AppendsEach(Cardinality(m), {HomographThreat : i \in m})
                /\ score' = score - HomographPenalty * Cardinality(m)
       /\ pc = "subdomain" =>
            LET m == {i \in 1..4 : SubdomainPatternTest(i, domain)}
            IN  /\ AppendsEach(Cardinality(m), {SubdomainThreat : i \in m})
                /\ score' = score - SubdomainPenalty * Cardinality(m)
       /\ pc = "brand" =>
            LET m == {i \in 1..Len(brandPatterns) : Impersonates(domain, i)}
            IN  AppendsEach(Cardinality(m), {BrandThreat(brandPatterns[i].brand) : i \in m})
      ]_vars

\* two entries of the misspelling dictionary matched: two findings, 140 off
C15_Witness ==
    /\ pc = "homograph"
    /\ urlToAnalyze = "https://amazone-paypal.net/about"
    /\ threats = <<MisspellingThreat("amazon", "amazon"), MisspellingThreat("amazone", "amazon")>>
    /\ score = 100 - 2 * MisspellingPenalty

\* the entries of the TLD blocklist host d ends with, and the shorteners it contains
TldMatches(d) == {i \in 1..Len(suspiciousTlds) : endsWith(d, suspiciousTlds[i])}
ShortenerMatches(d) == {i \in 1..Len(urlShorteners) : includes(d, urlShorteners[i])}

\* the least member of a non-empty set of list positions
First(m) == CHOOSE i \in m : \A j \in m : i <= j

\* C16: the TLD block and the shortener block each append at most one
\* finding: none when no entry of the list matches, and otherwise the
\* finding of the first matching entry alone, with the penalty (25, 20)
\* subtracted once.
C16_FirstMatchOnly ==
    [][/\ pc = "tld" =>
            LET m == TldMatches(domain)
            IN  IF m = {} THEN NewThreats = <<>> /\ score' = score
                ELSE /\ NewThreats = <<TldThreat(suspiciousTlds[First(m)])>>
                     /\ NewWarnings = <<TldWarning(suspiciousTlds[First(m)])>>
                     /\ score' = score - 25
       /\ pc = "shortener" =>
            LET m == ShortenerMatches(domain)
            IN  IF m = {} THEN NewThreats = <<>> /\ score' = score
                ELSE /\ NewThreats = <<ShortenerThreat>>
                     /\ NewWarnings = <<ShortenerWarning>>
                     /\ score' = score - 20
      ]_vars

\* a host that contains two shorteners of the list, with one finding
C16_Witness ==
    /\ result # NoResult
    /\ result.url = "https://t.co.bit.ly/abc"
    /\ Cardinality(ShortenerMatches(HostOf(result.url))) = 2
    /\ result.threats = <<ShortenerThreat>>
    /\ result.score = 80

\* t is a finding of the brand-misspelling or the brand-impersonation rule
TyposquattingFinding(t) ==
    \/ startsWith(t, "Possible misspelling detected")
    \/ \E i \in 1..Len(brandPatterns) : t = BrandThreat(brandPatterns[i].brand)

\* C17 (as claimed): details.typosquatting is true exactly when the result
\* holds a finding of the brand-misspelling or the brand-impersonation rule.
C17_TyposquattingFlag ==
    result # NoResult =>
        (result.details.typosquatting <=>
            \E i \in 1..Len(result.threats) : TyposquattingFinding(result.threats[i]))

\* the score-derived labels of a details record
Labels(d) ==
    [domainAge |-> d.domainAge, reputation |-> d.reputation, registrar |-> d.registrar,
     dnsRecords |-> d.dnsRecords, securityHeaders |-> d.securityHeaders]

\* the labels the return statement derives for URL u from score s
LabelsAt(u, s) == Labels(Details(u, [SeedAcc EXCEPT !.score = s], 0, "US"))

\* no threshold of T separates s1 from s2, a score on a threshold being
\* separated from every other score
NotSeparated(s1, s2, T) ==
    \A t \in T : (s1 > t <=> s2 > t) /\ (s1 >= t <=> s2 >= t)

\* s1 and s2 are above the same thresholds of T
SameBucket(s1, s2, T) == \A t \in T : s1 > t <=> s2 > t

SslFromScheme ==
    result # NoResult => (result.details.ssl <=> startsWith(result.url, "https://"))

\* C18 (as claimed): the labels of a result are those of every score that
\* the thresholds 80, 60, 40, 20 do not separate from its score, with the
\* same URL; ssl tells whether the URL starts with https://.
C18_LabelsBucketedByFour ==
    /\ result # NoResult =>
          \A s \in 0..100 :
              NotSeparated(result.score, s, {80, 60, 40, 20}) =>
                  LabelsAt(result.url, s) = Labels(result.details)
    /\ SslFromScheme

\* C18 (amended): the labels of a result are those of every score in the
\* same bucket of the thresholds 80, 70, 60, 50, 40, 20 (a bucket holding
\* the scores above the same thresholds), with the same URL; ssl tells
\* whether the URL starts with https://.
C18_LabelsBucketedBySix ==
    /\ result # NoResult =>
          \A s \in 0..100 :
              SameBucket(result.score, s, {80, 70, 60, 50, 40, 20}) =>
                  LabelsAt(result.url, s) = Labels(result.details)
    /\ SslFromScheme

\* a score between 60 and 70 over https: reputation Good, registrar unknown
C18_Witness ==
    /\ result # NoResult
    /\ result.score = 65
    /\ result.details.ssl
    /\ result.details.reputation = "Good"
    /\ result.details.registrar = "Unknown/Suspicious"
    /\ result.details.domainAge = "Moderate (6-12 months)"
    /\ result.details.securityHeaders = "Missing/Weak"

\* C19: in every result, level safe, score 100 and threats being the
\* sentinel alone are equivalent; from the first finding on, the executing
\* call has a level above safe and a score below 100; a result with the
\* invalid-format finding is not safe.
C19_SafeIffPerfectIffSentinel ==
    /\ result # NoResult =>
          /\ result.riskLevel = "safe" <=> result.score = 100
          /\ result.score = 100 <=> result.threats = <<SentinelThreat>>
          /\ CountOf(result.threats, InvalidThreat) > 0 => result.riskLevel # "safe"
    /\ InBattery /\ threats # <<>> /\ threats # <<SentinelThreat>> =>
          riskLevel # "safe" /\ score < 100
    /\ InBattery /\ threats = <<>> => riskLevel = "safe" /\ score = 100

\* one finding, of the missing-HTTPS rule: not safe, below 100, no sentinel
C19_Witness ==
    /\ result # NoResult
    /\ result.url = "http://example.org/about"
    /\ result.threats = <<HttpsThreat>>
    /\ result.riskLevel = "suspicious"
    /\ result.score = 70

\* the brands' own domains the claim names
OwnDomainUrls ==
    {"https://google.com/about", "https://facebook.com/about", "https://amazon.com/about"}

\* C20 (as claimed): no result for a brand's own domain holds a misspelling
\* finding, and every misspelling finding of a result names a dictionary
\* entry that is not a part of the correct brand name.
C20_NoMisspellingOnCorrectBrand ==
    result # NoResult =>
        /\ result.url \in OwnDomainUrls =>
              \A k \in 1..Len(result.threats) :
                  ~startsWith(result.threats[k], "Possible misspelling detected")
        /\ \A e \in MisspellingMatches(HostOf(result.url)) :
              ~includes(commonMisspellings[e[1]].correct,
                        commonMisspellings[e[1]].misspelled[e[2]])

\* r holds a finding of the file-download rule
DownloadFinding(r) == CountOf(r.threats, DownloadThreat) > 0

\* u is a scheme and a host and nothing more
SchemeAndHostOnly(u) ==
    \E p \in {"https://", "http://"} :
        /\ startsWith(u, p)
        /\ Len(u) > Len(p)
        /\ \A k \in (Len(p) + 1)..Len(u) : Char(u, k) \notin {"/", "?", "#"}

\* C21 (as claimed): a result with a file-download finding is for a URL whose
\* path ends with one of the file extensions or that contains one of the
\* download, update or install phrases; a URL of scheme and host alone has
\* no file-download finding.
C21_DownloadNeedsPathOrPhrase ==
    result # NoResult /\ DownloadFinding(result) =>
        LET parsed == ParseURL(result.url)
            path == toLowerCase(parsed.pathname)
            full == toLowerCase(result.url)
        IN  /\ \/ \E e \in DownloadExtensions : endsWith(path, "." \o e)
               \/ \E i \in 2..4 : DownloadPatternTest(i, full)
            /\ ~SchemeAndHostOnly(result.url)

\* the calls of handleScan that have started a scan and not yet finished:
\* those waiting on their timer and the one executing
ScansInFlight == Len(pending) + (IF pc = "idle" THEN 0 ELSE 1)

\* C22 (as claimed): at most one scan is in flight, and isScanning is true
\* exactly while one is.
C22_OneScanInFlight ==
    /\ ScansInFlight <= 1
    /\ isScanning <=> ScansInFlight = 1

\* chain l has tried the services 0..serviceIndex, each once, in index order
TriedInOrder(l) ==
    /\ l.serviceIndex \in 0..(Len(screenshotServices) - 1)
    /\ l.tried = [i \in 1..(l.serviceIndex + 1) |-> i - 1]

Ended(l) == l.phase \in {"loaded", "failed"}

\* what one step does to a chain: l before, m after
ChainStep(l, m) ==
    /\ m.serviceIndex # l.serviceIndex =>
          /\ l.phase = "waiting"
          /\ m.serviceIndex = l.serviceIndex + 1
          /\ m.phase = "loading"
    /\ l.phase # "waiting" /\ m.phase = "waiting" =>
          l.phase = "loading" /\ previewUrl' = previewUrl
    /\ l.phase # "loaded" /\ m.phase = "loaded" =>
          /\ previewUrl' = generateUrl(l.serviceIndex, targetUrl(l.url))
          /\ currentService' = l.serviceIndex
          /\ ~isLoading'
    /\ l.phase # "failed" /\ m.phase = "failed" => error' = AllFailed /\ ~isLoading'
    /\ Ended(l) => m = l

====
